---- MODULE Spec2Model ----
(***************************************************************************)
(* Lottery Lab: the commit-reveal engine of rng.ts (commitSeed,            *)
(* deriveNumbers, verifyCommit, the hex codec and the storage of           *)
(* commitments), the helpers of stats.ts and ev.ts, the harvest script.    *)
(*                                                                         *)
(* Strings are sequences of one-character strings, byte arrays are         *)
(* sequences of integers in 0..255.  SHA-256 is a function nobody can      *)
(* compute here, so it is modelled as an oracle: the table sha records the *)
(* digest handed out for every payload asked so far, a payload asked twice *)
(* gets the same digest, and a payload asked for the first time gets any   *)
(* digest of DigestLen bytes over ByteSamples.                             *)
(*                                                                         *)
(* The specifications share the variables:                                 *)
(*   SpecDerive  calls of deriveNumbers with arguments fixed by Init       *)
(*               (FairDerive: the same, the loop's turns taken in the end);*)
(*   SpecCommit  commitSeed, then verifyCommit on the commitment returned, *)
(*               on one built by hand, and on single-character changes of  *)
(*               a commitment that verified;                               *)
(*   SpecBias    the accept-and-map step of deriveNumbers over every byte; *)
(*   SpecCodec   toHex and fromHex applied one after the other;            *)
(*   SpecFresh   commitSeed called several times in a row;                 *)
(*   SpecStore   persistCommitment and loadCommitment over localStorage;   *)
(*   SpecHarvest the harvest script run again and again                    *)
(*               (FairHarvest: the same, every run going on to its end);   *)
(*   SpecStats   computeFrequency and selectRollingWindow of stats.ts;     *)
(*   SpecEv      computeEV of ev.ts;                                       *)
(*   SpecGen     the NumberGenerator component: games selected, commits    *)
(*               and reveals, the asynchronous handlers interleaved        *)
(*               (SpecReveal: the same over commitments made earlier,      *)
(*               no new commitment made).                                  *)
(***************************************************************************)
EXTENDS Integers, Sequences, FiniteSets, TLC

VARIABLES
    sha,      \* SHA-256 so far: payload (byte sequence) -> digest
    dargs,    \* deriveNumbers: the arguments [seedHex, count, min, max]
    dpc,      \* deriveNumbers: "idle", "loop" (at the while test), "done"
    seed,     \* deriveNumbers: const seed = fromHex(seedHex)
    out,      \* deriveNumbers: the Set<number>, in insertion order
    counter,  \* deriveNumbers: let counter
    dres,     \* deriveNumbers: the settled promise of the current call
    dlast,    \* the settled promise of the previous call, NoResult before it
    cm,       \* the Commitment commitSeed returned last, NoCommitment before it
    vin,      \* verifyCommit: the Commitment it was called with last
    vres,     \* verifyCommit: the settled promise of that call
    changes,  \* single-character changes between the first commitment verified and vin
    bias,     \* the loop body of deriveNumbers run over every byte value in turn
    codec,    \* the hex codec: toHex and fromHex applied one after the other
    fresh,    \* commitSeed called repeatedly: the random bytes drawn, the Commitments returned
    harvest,  \* the harvest script: the clock, the files of data/, main's position and console
    store,    \* localStorage, the commitments persisted in it, the last loadCommitment
    stats,    \* stats.ts: the arguments of a call and what it returned
    ev,       \* ev.ts: the EvInput of a call of computeEV and the EvResult
    gen       \* NumberGenerator.tsx: the component's state, localStorage, the handlers in flight

dvars == <<dargs, dpc, seed, out, counter, dres, dlast>>
cvars == <<cm, vin, vres, changes>>
\* The variables of the parts that follow the commit-reveal engine.
xvars == <<codec, fresh, harvest, store, stats, ev, gen>>
\* What a step of one part leaves alone.
codecFrame == <<sha, dvars, cvars, bias, fresh, harvest, store, stats, ev, gen>>
freshFrame == <<dvars, cvars, bias, codec, harvest, store, stats, ev, gen>>
harvestFrame == <<sha, dvars, cvars, bias, codec, fresh, store, stats, ev, gen>>
storeFrame == <<sha, dvars, cvars, bias, codec, fresh, harvest, stats, ev, gen>>
statsFrame == <<sha, dvars, cvars, bias, codec, fresh, harvest, store, ev, gen>>
evFrame == <<sha, dvars, cvars, bias, codec, fresh, harvest, store, stats, gen>>
genFrame == <<sha, dvars, cvars, bias, codec, fresh, harvest, store, stats, ev>>
vars == <<sha, dargs, dpc, seed, out, counter, dres, dlast, cm, vin, vres, changes, bias, codec, fresh, harvest, store, stats, ev, gen>>

(***************************************************************************)
(* Bounds of the model.                                                    *)
(***************************************************************************)
\* Bytes per digest (SHA-256 has 32; the scan of a digest is the same loop).
DigestLen == 2
\* The iteration bound of deriveNumbers, 1e6 in the source, scaled down.
CounterLimit == 2

\* Bytes per random seed (32 in the source, scaled down).
SeedLen == 1

\* Single-character changes made in a row to a commitment that verified.
MaxChanges == 2

\* The values of a byte are 0..ByteSpan-1.
ByteSpan == 256

\* The byte values digests and random seeds are made of.
ByteSamples == {10, 255}

NoResult == [kind |-> "none"]
Returned(v) == [kind |-> "ok", value |-> v]
Thrown(e) == [kind |-> "error", error |-> e]

(***************************************************************************)
(* Characters.                                                             *)
(***************************************************************************)
HexLower == <<"0", "1", "2", "3", "4", "5", "6", "7", "8", "9", "a", "b", "c", "d", "e", "f">>
HexUpper == <<"0", "1", "2", "3", "4", "5", "6", "7", "8", "9", "A", "B", "C", "D", "E", "F">>

IsHexDigit(c) == \E i \in 1..16 : HexLower[i] = c \/ HexUpper[i] = c
HexVal(c) == (CHOOSE i \in 1..16 : HexLower[i] = c \/ HexUpper[i] = c) - 1

\* String.prototype.toLowerCase, on the characters a hex field can hold.
LowerChar(c) == IF \E i \in 11..16 : HexUpper[i] = c
                THEN HexLower[CHOOSE i \in 11..16 : HexUpper[i] = c]
                ELSE IF c = "X" THEN "x" ELSE IF c = "G" THEN "g" ELSE c
toLowerCase(s) == [i \in 1..Len(s) |-> LowerChar(s[i])]

(***************************************************************************)
(* The hex codec.                                                          *)
(***************************************************************************)
\* b.toString(16): no leading zero, lowercase.
toString16(b) == IF b < 16 THEN <<HexLower[b + 1]>>
                 ELSE <<HexLower[(b \div 16) + 1], HexLower[(b % 16) + 1]>>
\* s.padStart(2, '0')
padStart2(s) == IF Len(s) >= 2 THEN s ELSE IF Len(s) = 1 THEN <<"0">> \o s ELSE <<"0", "0">>

RECURSIVE Flatten(_)
Flatten(ss) == IF ss = <<>> THEN <<>> ELSE Head(ss) \o Flatten(Tail(ss))

\* toHex without its padStart(2, '0')
toHexNoPad(bytes) == Flatten([i \in 1..Len(bytes) |-> toString16(bytes[i])])
\* Array.from(bytes, (b) => b.toString(16).padStart(2, '0')).join('')
toHex(bytes) == Flatten([i \in 1..Len(bytes) |-> padStart2(toString16(bytes[i]))])

\* parseInt(s, 16) of a two-character string: leading white space is skipped,
\* then a sign, then a 0x prefix; the longest run of hex digits that follows
\* is the number, and no digit at all gives NaN.
\* The result is <<n>> for the number n and <<>> for NaN.
parseInt16(c1, c2) ==
    IF c1 = " " THEN (IF IsHexDigit(c2) THEN <<HexVal(c2)>> ELSE <<>>)
    ELSE IF c1 = "+" THEN (IF IsHexDigit(c2) THEN <<HexVal(c2)>> ELSE <<>>)
    ELSE IF c1 = "-" THEN (IF IsHexDigit(c2) THEN <<0 - HexVal(c2)>> ELSE <<>>)
    ELSE IF c1 = "0" /\ c2 \in {"x", "X"} THEN <<>>
    ELSE IF IsHexDigit(c1)
         THEN (IF IsHexDigit(c2) THEN <<16 * HexVal(c1) + HexVal(c2)>> ELSE <<HexVal(c1)>>)
    ELSE <<>>

\* A store into a Uint8Array: NaN becomes 0, the rest wraps modulo 256.
ToUint8(n) == IF n = <<>> THEN 0 ELSE (n[1] + 256) % 256

EvenLength(hex) == Len(hex) % 2 = 0

\* The same reading the pair of byte i at hex.substr(i, 2).
fromHexBytesStride1(hex) == [i \in 1..(Len(hex) \div 2) |-> ToUint8(parseInt16(hex[i], hex[i + 1]))]
\* fromHex past its length test: one byte per pair of characters.
fromHexBytes(hex) == [i \in 1..(Len(hex) \div 2) |-> ToUint8(parseInt16(hex[2 * i - 1], hex[2 * i]))]
fromHex(hex) == IF ~EvenLength(hex) THEN Thrown("InvalidEncoding")
                ELSE Returned(fromHexBytes(hex))

(***************************************************************************)
(* SHA-256.                                                                *)
(***************************************************************************)
Digests == [1..DigestLen -> ByteSamples]

\* crypto.subtle.digest('SHA-256', payload) answers d and leaves the table t.
Digest(payload, d, t) ==
    IF payload \in DOMAIN sha
    THEN d = sha[payload] /\ t = sha
    ELSE d \in Digests /\ t = (payload :> d) @@ sha

\* No two payloads asked so far share a digest.
CollisionFree(t) == \A p, q \in DOMAIN t : t[p] = t[q] => p = q

\* The same call where SHA-256 is taken to be collision-free, as the commit
\* protocol takes it: a new payload never gets a digest already handed out.
DigestOnce(payload, d, t) == Digest(payload, d, t) /\ CollisionFree(t)

(***************************************************************************)
(* deriveNumbers.                                                          *)
(***************************************************************************)
\* new Uint8Array([counter & 0xff, (counter >> 8) & 0xff, ...])
counterBytes(c) == <<c % 256, (c \div 256) % 256, (c \div 65536) % 256, (c \div 16777216) % 256>>

\* Every byte accepted, as a plain byte % range would do.
maxUnbiasedNaive(range) == ByteSpan - 1
\* Every byte accepted once the range is wider than a byte.
maxUnbiasedWide(range) == IF range > ByteSpan THEN ByteSpan - 1 ELSE (ByteSpan \div range) * range - 1
\* Math.floor(256 / range) * range - 1
maxUnbiased(range) == (ByteSpan \div range) * range - 1

\* (value % range) + min
mapped(value, range, min) == (value % range) + min

\* out.add(v): a Set keeps the order of first insertion.
SetAdd(s, v) == IF \E i \in 1..Len(s) : s[i] = v THEN s ELSE Append(s, v)

\* The same loop over all of hash, without its break.
RECURSIVE scanNoBreak(_, _, _, _, _)
scanNoBreak(s, hash, count, range, min) ==
    IF hash = <<>> THEN s
    ELSE scanNoBreak(IF Head(hash) <= maxUnbiased(range)
                     THEN SetAdd(s, mapped(Head(hash), range, min)) ELSE s,
                     Tail(hash), count, range, min)
\* for (const value of hash) { if (out.size >= count) break; ... }
RECURSIVE scan(_, _, _, _, _)
scan(s, hash, count, range, min) ==
    IF hash = <<>> \/ Len(s) >= count THEN s
    ELSE scan(IF Head(hash) <= maxUnbiased(range)
              THEN SetAdd(s, mapped(Head(hash), range, min)) ELSE s,
              Tail(hash), count, range, min)

\* Array.prototype.sort with the comparator (a, b) => a - b
RECURSIVE Insert(_, _)
Insert(sorted, v) ==
    IF sorted = <<>> THEN <<v>>
    ELSE IF v - Head(sorted) < 0 THEN <<v>> \o sorted
    ELSE <<Head(sorted)>> \o Insert(Tail(sorted), v)
\* Array.from(out) left in insertion order
sortUnsorted(s) == s
\* Array.from(out).sort((a, b) => a - b)
RECURSIVE sortAscending(_)
sortAscending(s) == IF s = <<>> THEN <<>> ELSE Insert(sortAscending(Tail(s)), Head(s))

\* The same with counter kept from the call before.
DeriveCallStaleCounter ==
    /\ dpc \in {"idle", "done"}
    /\ dlast' = dres
    /\ IF dargs.count <= 0
       THEN dpc' = "done" /\ dres' = Returned(<<>>) /\ UNCHANGED <<seed, out, counter>>
       ELSE IF dargs.min > dargs.max
       THEN dpc' = "done" /\ dres' = Thrown("InvalidRange") /\ UNCHANGED <<seed, out, counter>>
       ELSE IF fromHex(dargs.seedHex).kind = "error"
       THEN dpc' = "done" /\ dres' = fromHex(dargs.seedHex) /\ UNCHANGED <<seed, out, counter>>
       ELSE /\ dpc' = "loop"
            /\ dres' = NoResult
            /\ seed' = fromHex(dargs.seedHex).value
            /\ out' = <<>>
            /\ UNCHANGED counter
    /\ UNCHANGED <<sha, dargs>>
    /\ UNCHANGED <<cvars, bias, xvars>>
\* The same without the early return of line 39.
DeriveCallNoEarlyReturn ==
    /\ dpc \in {"idle", "done"}
    /\ dlast' = dres
    /\ IF dargs.min > dargs.max
       THEN dpc' = "done" /\ dres' = Thrown("InvalidRange") /\ UNCHANGED <<seed, out, counter>>
       ELSE IF fromHex(dargs.seedHex).kind = "error"
       THEN dpc' = "done" /\ dres' = fromHex(dargs.seedHex) /\ UNCHANGED <<seed, out, counter>>
       ELSE /\ dpc' = "loop"
            /\ dres' = NoResult
            /\ seed' = fromHex(dargs.seedHex).value
            /\ out' = <<>>
            /\ counter' = 0
    /\ UNCHANGED <<sha, dargs>>
    /\ UNCHANGED <<cvars, bias, xvars>>
\* Lines 39-44: a call, up to the loop.  dlast keeps how the call before
\* settled.
DeriveCall ==
    /\ dpc \in {"idle", "done"}
    /\ dlast' = dres
    /\ IF dargs.count <= 0
       THEN dpc' = "done" /\ dres' = Returned(<<>>) /\ UNCHANGED <<seed, out, counter>>
       ELSE IF dargs.min > dargs.max
       THEN dpc' = "done" /\ dres' = Thrown("InvalidRange") /\ UNCHANGED <<seed, out, counter>>
       ELSE IF fromHex(dargs.seedHex).kind = "error"
       THEN dpc' = "done" /\ dres' = fromHex(dargs.seedHex) /\ UNCHANGED <<seed, out, counter>>
       ELSE /\ dpc' = "loop"
            /\ dres' = NoResult
            /\ seed' = fromHex(dargs.seedHex).value
            /\ out' = <<>>
            /\ counter' = 0
    /\ UNCHANGED <<sha, dargs>>
    /\ UNCHANGED <<cvars, bias, xvars>>

\* Lines 46-64: one turn of the while loop, the while test true.
DeriveIterate ==
    /\ dpc = "loop"
    /\ Len(out) < dargs.count
    /\ \E hash \in Digests :
         /\ Digest(seed \o counterBytes(counter), hash, sha')
         /\ out' = scan(out, hash, dargs.count, dargs.max - dargs.min + 1, dargs.min)
    /\ counter' = counter + 1
    /\ IF counter' > CounterLimit
       THEN dpc' = "done" /\ dres' = Thrown("Exhaustion")
       ELSE UNCHANGED <<dpc, dres>>
    /\ UNCHANGED <<dargs, seed, dlast>>
    /\ UNCHANGED <<cvars, bias, xvars>>

\* Line 66: the while test false.
DeriveReturn ==
    /\ dpc = "loop"
    /\ ~(Len(out) < dargs.count)
    /\ dpc' = "done"
    /\ dres' = Returned(sortAscending(out))
    /\ UNCHANGED <<sha, dargs, seed, out, counter, dlast>>
    /\ UNCHANGED <<cvars, bias, xvars>>

DeriveSeeds == { <<"0", "a">>, <<"a">>, <<"g", "0">> }
DeriveCounts == {0 - 1, 0, 1, 2}
DeriveRanges == { <<0, 0>>, <<1, 2>>, <<1, 3>>, <<1, 59>>, <<0, 255>>, <<0, 256>>, <<3, 1>> }
DeriveInputs == { [seedHex |-> s, count |-> n, min |-> r[1], max |-> r[2]] :
                    s \in DeriveSeeds, n \in DeriveCounts, r \in DeriveRanges }

NoCommitment == [seed |-> <<>>, ts |-> <<>>, gameId |-> <<>>, commit |-> <<>>]

DeriveIdle ==
    /\ dpc = "idle"
    /\ seed = <<>>
    /\ out = <<>>
    /\ counter = 0
    /\ dres = NoResult
    /\ dlast = NoResult
BiasIdle == bias = [min |-> 0, max |-> 0, next |-> 0, tally |-> <<>>]
CodecIdle == codec = [from |-> "none", pc |-> 0, bytes |-> <<>>, hex |-> <<>>, back |-> NoResult, rehex |-> <<>>]
\* The parts that follow the commit-reveal engine, before anything ran.
FreshIdle == fresh = [drawn |-> {}, issued |-> <<>>]
\* const GAMES: the ids, in the order main visits them.
GAMES == <<"uk_lotto", "euromillions", "thunderball">>
NoDataset == [game |-> "", last_updated_utc |-> <<>>, draws |-> <<>>]
\* The script not started, no file in data/ yet.
HarvestIdle ==
    harvest = [clock |-> 0, files |-> [i \in 1..Len(GAMES) |-> <<>>], runs |-> 0, next |-> 0,
               updated |-> 0, dataset |-> NoDataset, written |-> {}, log |-> <<>>]
\* loadCommitment's null
Null == [kind |-> "null"]
\* An empty localStorage that works, nothing persisted or loaded yet.
StoreIdle ==
    store = [available |-> TRUE, items |-> <<>>, persisted |-> <<>>, warned |-> 0,
             loaded |-> [gameId |-> <<>>, value |-> NoResult, at |-> 0]]
StatsIdle ==
    stats = [given |-> <<>>, draws |-> <<>>, poolMin |-> 0, poolMax |-> 0, count |-> 0,
             frequency |-> NoResult, window |-> NoResult]
EvIdle ==
    ev = [input |-> [ticketPrice |-> 0, jackpot |-> 0, rolloverProbability |-> <<0>>, tiers |-> <<>>],
          result |-> NoResult]
\* The useState initial values (lines 43-49) over an empty localStorage, no
\* handler called yet.
Unmounted ==
    [gameId |-> <<"u", "k", "_", "l", "o", "t", "t", "o">>, linesRequested |-> 1, avoidCommon |-> TRUE,
     commitment |-> Null, lines |-> <<>>, revealState |-> "hidden", verification |-> "idle",
     available |-> TRUE, items |-> <<>>, drawn |-> {}, hash |-> 0,
     committing |-> Null, revealing |-> Null, shown |-> Null]
GenIdle == gen = Unmounted
XIdle == CodecIdle /\ FreshIdle /\ HarvestIdle /\ StoreIdle /\ StatsIdle /\ EvIdle /\ GenIdle
CommitIdle ==
    /\ cm = NoCommitment
    /\ vin = NoCommitment
    /\ vres = NoResult
    /\ changes = 0

InitDerive ==
    /\ sha = <<>>
    /\ dargs \in DeriveInputs
    /\ DeriveIdle
    /\ CommitIdle
    /\ BiasIdle
    /\ XIdle

NextDerive == DeriveCall \/ DeriveIterate \/ DeriveReturn

SpecDerive == InitDerive /\ [][NextDerive]_vars

\* A digest asked for is delivered and the loop goes on: the turn of the
\* loop that is due is taken in the end.  Nothing makes a caller call.
FairDerive == SpecDerive /\ WF_vars(DeriveIterate) /\ WF_vars(DeriveReturn)

(***************************************************************************)
(* commitSeed and verifyCommit.                                            *)
(***************************************************************************)
\* The characters of ts and gameId.  <D800> and <D801> are two unpaired
\* surrogates, which TextEncoder encodes as U+FFFD.
TagChars == {"1", "u", "<D800>", "<D801>"}
Utf8(c) == CASE c = "1" -> <<49>>
             [] c = "2" -> <<50>>
             [] c = "u" -> <<117>>
             [] c = "_" -> <<95>>
             [] c = "a" -> <<97>>
             [] c = "b" -> <<98>>
             [] c = "d" -> <<100>>
             [] c = "e" -> <<101>>
             [] c = "h" -> <<104>>
             [] c = "i" -> <<105>>
             [] c = "k" -> <<107>>
             [] c = "l" -> <<108>>
             [] c = "m" -> <<109>>
             [] c = "n" -> <<110>>
             [] c = "o" -> <<111>>
             [] c = "r" -> <<114>>
             [] c = "s" -> <<115>>
             [] c = "t" -> <<116>>
             [] c = "<D800>" -> <<239, 191, 189>>
             [] c = "<D801>" -> <<239, 191, 189>>

\* encoder.encode(s)
encode(s) == Flatten([i \in 1..Len(s) |-> Utf8(s[i])])

\* The tag without ts in it.
tagNoTs(ts, gameId) == encode(gameId)
\* encoder.encode(ts + gameId)
tag(ts, gameId) == encode(ts \o gameId)

\* new Date().toISOString(), as the clock may read
Timestamps == { <<"1">>, <<"2">> }
GameIds == { <<"u">>, <<"<D800>">> }

\* Lines 27-35.
CommitSeed(gameId) ==
    /\ cm = NoCommitment
    /\ vres = NoResult
    /\ \E sd \in [1..SeedLen -> ByteSamples], ts \in Timestamps, hash \in Digests :
         /\ DigestOnce(sd \o tag(ts, gameId), hash, sha')
         /\ cm' = [seed |-> toHex(sd), ts |-> ts, gameId |-> gameId, commit |-> toHex(hash)]
    /\ UNCHANGED <<vin, vres, changes>>
    /\ UNCHANGED <<dvars, bias, xvars>>

\* The comparison without toLowerCase, and one that throws on a mismatch.
sameDigestExact(calculated, commit) == Returned(calculated = commit)
sameDigestOrThrow(calculated, commit) ==
    IF calculated = toLowerCase(commit) THEN Returned(TRUE) ELSE Thrown("Mismatch")
\* Line 78: calculated === commit.toLowerCase()
sameDigest(calculated, commit) == Returned(calculated = toLowerCase(commit))

\* Lines 70-78.
verifyCommit(c) ==
    /\ vin' = c
    /\ IF fromHex(c.seed).kind = "error"
       THEN vres' = fromHex(c.seed) /\ UNCHANGED sha
       ELSE \E hash \in Digests :
              /\ DigestOnce(fromHex(c.seed).value \o tag(c.ts, c.gameId), hash, sha')
              /\ vres' = sameDigest(toHex(hash), c.commit)

\* The characters a stored seed or commit may have been changed to.
HexFieldChars == {"0", "a", "A", "F", "g"}

ReplaceAt(s, i, c) == [s EXCEPT ![i] = c]
\* The commitments one character away from c.
OneCharChanges(c) ==
    { [c EXCEPT !.seed = ReplaceAt(c.seed, i, ch)] :
        i \in 1..Len(c.seed), ch \in HexFieldChars }
    \cup { [c EXCEPT !.commit = ReplaceAt(c.commit, i, ch)] :
        i \in 1..Len(c.commit), ch \in HexFieldChars }
    \cup { [c EXCEPT !.ts = ReplaceAt(c.ts, i, ch)] :
        i \in 1..Len(c.ts), ch \in TagChars }
    \cup { [c EXCEPT !.gameId = ReplaceAt(c.gameId, i, ch)] :
        i \in 1..Len(c.gameId), ch \in TagChars }
\* c with the last character of its seed lost.
Truncated(c) == [c EXCEPT !.seed = SubSeq(c.seed, 1, Len(c.seed) - 1)]

\* A commitment built by hand from a seed string, as the unit test builds
\* one: hexToBytes is fromHex without the length test.
BuiltSeeds == { <<"F", "f">>, <<"g", "a">>, <<"a", "g">>, <<"-", "1">>, <<"0", "x">>, <<>> }

\* verifyCommit(commitSeed(gameId)): the commitment as it was returned.
VerifyFresh ==
    /\ cm # NoCommitment
    /\ vres = NoResult
    /\ verifyCommit(cm)
    /\ UNCHANGED <<cm, changes>>
    /\ UNCHANGED <<dvars, bias, xvars>>

\* verifyCommit on a commitment built by hand from a seed, ts and gameId.
VerifyBuilt ==
    /\ vres = NoResult
    /\ cm = NoCommitment
    /\ \E s \in BuiltSeeds, ts \in Timestamps, g \in GameIds, hash \in Digests :
         /\ DigestOnce(fromHexBytes(s) \o tag(ts, g), hash, sha')
         /\ verifyCommit([seed |-> s, ts |-> ts, gameId |-> g, commit |-> toHex(hash)])
    /\ UNCHANGED <<cm, changes>>
    /\ UNCHANGED <<dvars, bias, xvars>>

\* verifyCommit on a commitment that verified, one character of it changed.
VerifyChanged ==
    /\ vres = Returned(TRUE)
    /\ changes < MaxChanges
    /\ \E c \in OneCharChanges(vin) \ {vin} : verifyCommit(c)
    /\ changes' = changes + 1
    /\ UNCHANGED cm
    /\ UNCHANGED <<dvars, bias, xvars>>

\* verifyCommit on a commitment that verified, its seed one character short.
VerifyTruncated ==
    /\ vres = Returned(TRUE)
    /\ Len(vin.seed) > 0
    /\ changes < MaxChanges
    /\ verifyCommit(Truncated(vin))
    /\ changes' = changes + 1
    /\ UNCHANGED cm
    /\ UNCHANGED <<dvars, bias, xvars>>

InitCommit ==
    /\ sha = <<>>
    /\ dargs = [seedHex |-> <<>>, count |-> 0, min |-> 0, max |-> 0]
    /\ DeriveIdle
    /\ CommitIdle
    /\ BiasIdle
    /\ XIdle

NextCommit ==
    \/ \E g \in GameIds : CommitSeed(g)
    \/ VerifyFresh
    \/ VerifyBuilt
    \/ VerifyChanged
    \/ VerifyTruncated

SpecCommit == InitCommit /\ [][NextCommit]_vars

(***************************************************************************)
(* The loop body of deriveNumbers (lines 55-58) applied to every byte      *)
(* value 0, 1, ..., 255 once, for one range: tally[v] counts the bytes     *)
(* that were accepted and mapped to v.                                     *)
(***************************************************************************)
BiasMins == {0, 1}
BiasRanges == 1..ByteSpan

BiasScan ==
    /\ bias.next < ByteSpan
    /\ LET range == bias.max - bias.min + 1
           value == bias.next
       IN  bias' = [bias EXCEPT
                      !.next = value + 1,
                      !.tally = IF value <= maxUnbiased(range)
                                THEN [@ EXCEPT ![mapped(value, range, bias.min)] = @ + 1]
                                ELSE @]
    /\ UNCHANGED <<sha, dvars, cvars, xvars>>

InitBias ==
    /\ sha = <<>>
    /\ dargs = [seedHex |-> <<>>, count |-> 0, min |-> 0, max |-> 0]
    /\ DeriveIdle
    /\ CommitIdle
    /\ \E m \in BiasMins, r \in BiasRanges :
         bias = [min |-> m, max |-> m + r - 1, next |-> 0, tally |-> [v \in m..(m + r - 1) |-> 0]]
    /\ XIdle

NextBias == BiasScan

SpecBias == InitBias /\ [][NextBias]_vars

(***************************************************************************)
(* The hex codec on its own: toHex of a byte array and fromHex of the      *)
(* string it gave, and fromHex of a string and toHex of the bytes it gave. *)
(***************************************************************************)
\* Longest byte array encoded.
MaxCodecLen == 2
CodecByteSamples == {0, 9, 10, 15, 16, 171, 255}
\* Every single byte, and the arrays of sample bytes up to MaxCodecLen.
CodecBytes ==
    { <<b>> : b \in 0..(ByteSpan - 1) }
    \cup UNION { [1..n -> CodecByteSamples] : n \in 0..MaxCodecLen }
CodecChars == {"0", "9", "a", "F", "g"}
CodecHexes == UNION { [1..n -> CodecChars] : n \in 0..(2 * MaxCodecLen) }

\* toHex(bytes)
EncodeBytes ==
    /\ codec.from = "bytes" /\ codec.pc = 0
    /\ codec' = [codec EXCEPT !.hex = toHex(codec.bytes), !.pc = 1]
    /\ UNCHANGED codecFrame

\* fromHex(toHex(bytes))
DecodeEncoded ==
    /\ codec.from = "bytes" /\ codec.pc = 1
    /\ codec' = [codec EXCEPT !.back = fromHex(codec.hex), !.pc = 2]
    /\ UNCHANGED codecFrame

\* fromHex(hex)
DecodeHex ==
    /\ codec.from = "hex" /\ codec.pc = 0
    /\ codec' = [codec EXCEPT !.back = fromHex(codec.hex), !.pc = 1]
    /\ UNCHANGED codecFrame

\* toHex(fromHex(hex)), where fromHex returned
EncodeDecoded ==
    /\ codec.from = "hex" /\ codec.pc = 1
    /\ codec.back.kind = "ok"
    /\ codec' = [codec EXCEPT !.bytes = codec.back.value, !.rehex = toHex(codec.back.value), !.pc = 2]
    /\ UNCHANGED codecFrame

InitCodec ==
    /\ sha = <<>>
    /\ dargs = [seedHex |-> <<>>, count |-> 0, min |-> 0, max |-> 0]
    /\ DeriveIdle
    /\ CommitIdle
    /\ BiasIdle
    /\ \/ \E b \in CodecBytes :
            codec = [from |-> "bytes", pc |-> 0, bytes |-> b, hex |-> <<>>, back |-> NoResult, rehex |-> <<>>]
       \/ \E h \in CodecHexes :
            codec = [from |-> "hex", pc |-> 0, bytes |-> <<>>, hex |-> h, back |-> NoResult, rehex |-> <<>>]
    /\ FreshIdle
    /\ HarvestIdle
    /\ StoreIdle
    /\ StatsIdle
    /\ EvIdle
    /\ GenIdle

NextCodec == EncodeBytes \/ DecodeEncoded \/ DecodeHex \/ EncodeDecoded

SpecCodec == InitCodec /\ [][NextCodec]_vars

(***************************************************************************)
(* commitSeed called several times in a row.  crypto.getRandomValues is    *)
(* the secure random source: as SHA-256 is taken never to collide, the     *)
(* source is taken never to hand out the same bytes twice, and fresh.drawn *)
(* keeps what it handed out.                                               *)
(***************************************************************************)
\* Calls of commitSeed in a row.
MaxCommits == 2

\* crypto.getRandomValues(new Uint8Array(32))
getRandomValues(sd, drawn) == sd \in [1..SeedLen -> ByteSamples] \ drawn

\* commitSeed hashing the seed of the Commitment it returned before.
CommitNextKeptSeed(gameId) ==
    /\ Len(fresh.issued) < MaxCommits
    /\ \E sd \in [1..SeedLen -> ByteSamples], ts \in Timestamps, hash \in Digests :
         /\ IF fresh.issued = <<>> THEN getRandomValues(sd, fresh.drawn)
            ELSE sd = fromHexBytes(fresh.issued[1].seed)
         /\ DigestOnce(sd \o tag(ts, gameId), hash, sha')
         /\ fresh' = [drawn |-> fresh.drawn \cup {sd},
                      issued |-> Append(fresh.issued,
                          [seed |-> toHex(sd), ts |-> ts, gameId |-> gameId, commit |-> toHex(hash)])]
    /\ UNCHANGED freshFrame
\* Lines 27-35, one call after another.
CommitNext(gameId) ==
    /\ Len(fresh.issued) < MaxCommits
    /\ \E sd \in [1..SeedLen -> ByteSamples], ts \in Timestamps, hash \in Digests :
         /\ getRandomValues(sd, fresh.drawn)
         /\ DigestOnce(sd \o tag(ts, gameId), hash, sha')
         /\ fresh' = [drawn |-> fresh.drawn \cup {sd},
                      issued |-> Append(fresh.issued,
                          [seed |-> toHex(sd), ts |-> ts, gameId |-> gameId, commit |-> toHex(hash)])]
    /\ UNCHANGED freshFrame

InitFresh ==
    /\ sha = <<>>
    /\ dargs = [seedHex |-> <<>>, count |-> 0, min |-> 0, max |-> 0]
    /\ DeriveIdle
    /\ CommitIdle
    /\ BiasIdle
    /\ XIdle

NextFresh == \E g \in GameIds : CommitNext(g)

SpecFresh == InitFresh /\ [][NextFresh]_vars

(***************************************************************************)
(* The harvest script (harvest-results.ts): main run again and again, as   *)
(* the scheduled workflow runs it.  What harvestGame reads off the page of *)
(* a game is an input: the fetch fails, the container is missing, or the   *)
(* rows parse to a list of draws.  files[i] is the text of                 *)
(* data/<GAMES[i]>.json, <<>> while the file does not exist.               *)
(***************************************************************************)
\* Runs of the script.
MaxRuns == 2
\* The last reading of the clock, in milliseconds after the first.
MaxClock == 1

\* The rows harvestGame may collect from a page; each name stands for the
\* record of one draw, newest first.
SiteRows == { <<>>, <<"draw1">>, <<"draw2", "draw1">> }
FetchOutcomes == {"fetch failed", "no container", "rows"}

\* new Date().toISOString() at clock reading t
toISOString(t) == <<"T", t, "Z">>

\* gameSchema.parse(dataset): draws must be nonempty.
gameSchemaAccepts(dataset) == dataset.draws # <<>>

\* `${JSON.stringify(parsed, null, 2)}\n`
stringify(parsed) ==
    <<"game", parsed.game, "last_updated_utc", parsed.last_updated_utc, "draws", parsed.draws, "\n">>

\* main, lines 226-227.
StartRun ==
    /\ harvest.next = 0
    /\ harvest.runs < MaxRuns
    /\ harvest' = [harvest EXCEPT !.next = 1, !.updated = 0, !.dataset = NoDataset,
                                  !.written = {}, !.log = <<>>]
    /\ UNCHANGED harvestFrame

\* The same with the try around the loop: an error ends the loop.
HarvestGameAbort ==
    /\ harvest.next \in 1..Len(GAMES)
    /\ \E outcome \in FetchOutcomes, rows \in SiteRows :
         LET i == harvest.next
             dataset == [game |-> GAMES[i], last_updated_utc |-> toISOString(harvest.clock), draws |-> rows]
             serialised == stringify(dataset)
             existing == harvest.files[i]
         IN  IF outcome # "rows"
             THEN harvest' = [harvest EXCEPT !.next = Len(GAMES) + 1, !.dataset = NoDataset,
                                            !.log = Append(@, <<"error", GAMES[i], outcome>>)]
             ELSE IF ~gameSchemaAccepts(dataset)
             THEN harvest' = [harvest EXCEPT !.next = Len(GAMES) + 1, !.dataset = dataset,
                                            !.log = Append(@, <<"error", GAMES[i], "schema">>)]
             ELSE IF existing = serialised
             THEN harvest' = [harvest EXCEPT !.next = i + 1, !.dataset = dataset,
                                            !.log = Append(@, <<"log", GAMES[i], "no change">>)]
             ELSE harvest' = [harvest EXCEPT !.next = i + 1, !.dataset = dataset,
                                            !.files[i] = serialised,
                                            !.written = @ \cup {i},
                                            !.updated = @ + 1,
                                            !.log = Append(@, <<"log", GAMES[i], "updated">>)]
    /\ UNCHANGED harvestFrame
\* main, lines 229-243: the body of the loop for one game, with
\* harvestGame (lines 137-142, 206-210) and writeIfChanged (lines 213-223).
HarvestGame ==
    /\ harvest.next \in 1..Len(GAMES)
    /\ \E outcome \in FetchOutcomes, rows \in SiteRows :
         LET i == harvest.next
             dataset == [game |-> GAMES[i], last_updated_utc |-> toISOString(harvest.clock), draws |-> rows]
             serialised == stringify(dataset)
             existing == harvest.files[i]
         IN  IF outcome # "rows"
             THEN harvest' = [harvest EXCEPT !.next = i + 1, !.dataset = NoDataset,
                                            !.log = Append(@, <<"error", GAMES[i], outcome>>)]
             ELSE IF ~gameSchemaAccepts(dataset)
             THEN harvest' = [harvest EXCEPT !.next = i + 1, !.dataset = dataset,
                                            !.log = Append(@, <<"error", GAMES[i], "schema">>)]
             ELSE IF existing = serialised
             THEN harvest' = [harvest EXCEPT !.next = i + 1, !.dataset = dataset,
                                            !.log = Append(@, <<"log", GAMES[i], "no change">>)]
             ELSE harvest' = [harvest EXCEPT !.next = i + 1, !.dataset = dataset,
                                            !.files[i] = serialised,
                                            !.written = @ \cup {i},
                                            !.updated = @ + 1,
                                            !.log = Append(@, <<"log", GAMES[i], "updated">>)]
    /\ UNCHANGED harvestFrame

\* main, lines 245-247, and the end of the process.
FinishRun ==
    /\ harvest.next = Len(GAMES) + 1
    /\ harvest' = [harvest EXCEPT !.next = 0, !.runs = @ + 1,
                                  !.log = IF harvest.updated = 0
                                          THEN Append(@, <<"log", "All datasets already up to date.">>)
                                          ELSE @]
    /\ UNCHANGED harvestFrame

\* A millisecond passes.
Tick ==
    /\ harvest.clock < MaxClock
    /\ harvest' = [harvest EXCEPT !.clock = @ + 1]
    /\ UNCHANGED harvestFrame

InitHarvest ==
    /\ sha = <<>>
    /\ dargs = [seedHex |-> <<>>, count |-> 0, min |-> 0, max |-> 0]
    /\ DeriveIdle
    /\ CommitIdle
    /\ BiasIdle
    /\ XIdle

NextHarvest == StartRun \/ HarvestGame \/ FinishRun \/ Tick

SpecHarvest == InitHarvest /\ [][NextHarvest]_vars

\* Every promise main awaits settles (the fetch answers or fails, the file
\* is read and written), so a run that can go on does.
FairHarvest == SpecHarvest /\ WF_vars(HarvestGame) /\ WF_vars(FinishRun)

(***************************************************************************)
(* persistCommitment and loadCommitment over localStorage.  store.items    *)
(* is the storage, key -> string.  The storage may be out of reach for the *)
(* whole session (every access throws), and setItem may throw at any time  *)
(* for want of room.  store.persisted lists the commitments setItem has    *)
(* stored, in order; store.loaded is the last loadCommitment: its          *)
(* argument, what it returned, and how many had been stored by then.       *)
(***************************************************************************)
\* Commitments stored in a row.
MaxPersists == 3

\* The Commitment objects handed to persistCommitment.
PersistedCommitments ==
    { [seed |-> sd, ts |-> ts, gameId |-> g, commit |-> <<"1", "0">>] :
        sd \in { <<"0", "a">>, <<"F", "f">> }, ts \in Timestamps, g \in GameIds }

\* One key whatever the gameId.
localCommitmentStorageKeyShared(gameId) == <<"lottery-lab.commit">>
\* `lottery-lab.commit.${gameId}`
localCommitmentStorageKey(gameId) == <<"lottery-lab.commit.">> \o gameId

\* JSON.stringify(commitment): the members in the order of the object.
JSONstringify(c) == <<"{", "seed", c.seed, "ts", c.ts, "gameId", c.gameId, "commit", c.commit, "}">>
\* JSON.parse(raw) of such a text
JSONparse(raw) == [seed |-> raw[3], ts |-> raw[5], gameId |-> raw[7], commit |-> raw[9]]

\* localStorage.getItem(key): null for a key never set
getItem(items, key) == IF key \in DOMAIN items THEN items[key] ELSE Null

\* Lines 93-101 on a storage holding items.
loadCommitmentFrom(available, items, gameId) ==
    IF ~available THEN Null
    ELSE LET raw == getItem(items, localCommitmentStorageKey(gameId))
         IN  IF raw # Null /\ raw # <<>> THEN JSONparse(raw) ELSE Null

\* Lines 85-91.
PersistCommitment ==
    /\ Len(store.persisted) < MaxPersists
    /\ \E c \in PersistedCommitments, thrown \in BOOLEAN :
         IF ~store.available \/ thrown
         THEN store' = [store EXCEPT !.warned = 1]
         ELSE store' = [store EXCEPT
                          !.items = (localCommitmentStorageKey(c.gameId) :> JSONstringify(c)) @@ @,
                          !.persisted = Append(@, c)]
    /\ UNCHANGED storeFrame

\* Lines 93-101.
LoadCommitment ==
    /\ \E g \in GameIds :
         store' = [store EXCEPT
                     !.loaded = [gameId |-> g,
                                 value |-> loadCommitmentFrom(store.available, store.items, g),
                                 at |-> Len(store.persisted)],
                     !.warned = IF store.available THEN @ ELSE 1]
    /\ UNCHANGED storeFrame

InitStore ==
    /\ sha = <<>>
    /\ dargs = [seedHex |-> <<>>, count |-> 0, min |-> 0, max |-> 0]
    /\ DeriveIdle
    /\ CommitIdle
    /\ BiasIdle
    /\ CodecIdle /\ FreshIdle /\ HarvestIdle /\ StatsIdle /\ EvIdle /\ GenIdle
    /\ \E a \in BOOLEAN :
         store = [available |-> a, items |-> <<>>, persisted |-> <<>>, warned |-> 0,
                  loaded |-> [gameId |-> <<>>, value |-> NoResult, at |-> 0]]

NextStore == PersistCommitment \/ LoadCommitment

SpecStore == InitStore /\ [][NextStore]_vars

(***************************************************************************)
(* stats.ts: computeFrequency and selectRollingWindow.  A Map is the       *)
(* sequence of its <<key, value>> entries in insertion order.              *)
(***************************************************************************)
\* Longest list of draws.
MaxDraws == 3

\* Draws of a history: numbers in and out of the pools below, one number
\* twice in a draw, a draw without numbers.
DrawSamples ==
    { [date |-> "2025-09-01", numbers |-> <<1, 2>>],
      [date |-> "2025-09-02", numbers |-> <<1, 1>>],
      [date |-> "2025-09-03", numbers |-> <<2, 10>>],
      [date |-> "2025-09-04", numbers |-> <<>>] }
DrawLists == UNION { [1..n -> DrawSamples] : n \in 0..MaxDraws }
Pools == { <<1, 2>>, <<1, 10>>, <<0 - 1, 1>>, <<2, 2>>, <<2, 1>> }
WindowCounts == {0 - 1, 0, 1, 2, 3, 4}

DecDigits == <<"0", "1", "2", "3", "4", "5", "6", "7", "8", "9">>
\* Number.prototype.toString() of an integer
RECURSIVE toStringNat(_)
toStringNat(n) == IF n < 10 THEN <<DecDigits[n + 1]>>
                  ELSE toStringNat(n \div 10) \o <<DecDigits[(n % 10) + 1]>>
toStringInt(n) == IF n < 0 THEN <<"-">> \o toStringNat(0 - n) ELSE toStringNat(n)

MapHas(m, k) == \E i \in 1..Len(m) : m[i][1] = k
MapGet(m, k) == m[CHOOSE i \in 1..Len(m) : m[i][1] = k][2]
\* Map.prototype.set: a key already there keeps its place.
MapSet(m, k, v) ==
    IF MapHas(m, k) THEN [i \in 1..Len(m) |-> IF m[i][1] = k THEN <<k, v>> ELSE m[i]]
    ELSE Append(m, <<k, v>>)

\* Lines 17-19: for (let i = poolMin; i <= poolMax; i += 1) counts.set(i, 0)
RECURSIVE zeroCounts(_, _, _)
zeroCounts(counts, i, poolMax) ==
    IF i <= poolMax THEN zeroCounts(MapSet(counts, i, 0), i + 1, poolMax) ELSE counts

\* The same counting a number whether the Map has it or not.
countNumberAny(counts, num) ==
    MapSet(counts, num, (IF MapHas(counts, num) THEN MapGet(counts, num) ELSE 0) + 1)
\* Lines 22-24.
countNumber(counts, num) ==
    IF MapHas(counts, num) THEN MapSet(counts, num, MapGet(counts, num) + 1) ELSE counts

\* Line 21: draw.numbers.forEach
RECURSIVE countNumbers(_, _)
countNumbers(counts, numbers) ==
    IF numbers = <<>> THEN counts
    ELSE countNumbers(countNumber(counts, Head(numbers)), Tail(numbers))
\* Line 20: draws.forEach
RECURSIVE countDraws(_, _)
countDraws(counts, draws) ==
    IF draws = <<>> THEN counts
    ELSE countDraws(countNumbers(counts, Head(draws).numbers), Tail(draws))

\* Lines 15-28.
computeFrequency(draws, poolMin, poolMax) ==
    LET counts == countDraws(zeroCounts(<<>>, poolMin, poolMax), draws)
    IN  [i \in 1..Len(counts) |-> [label |-> toStringInt(counts[i][1]), value |-> counts[i][2]]]

\* Array.prototype.slice(start): a negative start counts from the end.
slice(array, start) ==
    LET len == Len(array)
        k == IF start < 0 THEN (IF len + start > 0 THEN len + start ELSE 0)
             ELSE (IF start < len THEN start ELSE len)
    IN  SubSeq(array, k + 1, len)

\* The same with slice(count).
selectRollingWindowFromStart(draws, count) == IF count <= 0 THEN <<>> ELSE slice(draws, count)
\* Lines 60-63.
selectRollingWindow(draws, count) == IF count <= 0 THEN <<>> ELSE slice(draws, 0 - count)

ComputeFrequency ==
    /\ stats.frequency = NoResult
    /\ stats' = [stats EXCEPT
                    !.frequency = Returned(computeFrequency(stats.draws, stats.poolMin, stats.poolMax))]
    /\ UNCHANGED statsFrame

SelectRollingWindow ==
    /\ stats.window = NoResult
    /\ stats' = [stats EXCEPT !.window = Returned(selectRollingWindow(stats.draws, stats.count))]
    /\ UNCHANGED statsFrame

InitStats ==
    /\ sha = <<>>
    /\ dargs = [seedHex |-> <<>>, count |-> 0, min |-> 0, max |-> 0]
    /\ DeriveIdle
    /\ CommitIdle
    /\ BiasIdle
    /\ CodecIdle /\ FreshIdle /\ HarvestIdle /\ StoreIdle /\ EvIdle /\ GenIdle
    /\ \E d \in DrawLists, pool \in Pools, n \in WindowCounts :
         stats = [given |-> d, draws |-> d, poolMin |-> pool[1], poolMax |-> pool[2], count |-> n,
                  frequency |-> NoResult, window |-> NoResult]

NextStats == ComputeFrequency \/ SelectRollingWindow

SpecStats == InitStats /\ [][NextStats]_vars

(***************************************************************************)
(* ev.ts: clampProbability and computeEV.  Amounts of money (ticketPrice,  *)
(* jackpot, payout) are whole numbers.  A probability is <<n>> for the     *)
(* number n / ProbScale and <<>> for NaN.  A product of a probability and  *)
(* an amount, and what is added up from such products, is a whole number   *)
(* of 1 / ProbScale; a quotient is the pair <<numerator, denominator>>.    *)
(* The arithmetic is exact.                                                *)
(***************************************************************************)
\* Most prize tiers of an EvInput.
MaxTiers == 2
\* Parts of 1 a probability is counted in.
ProbScale == 4

NaN == <<>>
Probabilities == { NaN, <<0 - 1>>, <<0>>, <<1>>, <<ProbScale>>, <<ProbScale + 1>> }
TicketPrices == {0 - 1, 0, 2}
Jackpots == {0 - 5, 0, 8}
Payouts == {0 - 3, 0, 4}
TierProbabilities == { NaN, <<0 - 1>>, <<2>>, <<ProbScale + 1>> }
Tiers == { [matches |-> 3, payout |-> a, probability |-> q] : a \in Payouts, q \in TierProbabilities }
EvInputs ==
    { [ticketPrice |-> t, jackpot |-> j, rolloverProbability |-> r, tiers |-> ts] :
        t \in TicketPrices, j \in Jackpots, r \in Probabilities,
        ts \in UNION { [1..n -> Tiers] : n \in 0..MaxTiers } }

\* Math.max(a, b) and Math.min(a, b) of two numbers
MathMax(a, b) == IF a >= b THEN a ELSE b
MathMin(a, b) == IF a <= b THEN a ELSE b

\* The same without the upper end.
clampProbabilityOpen(value) == IF value = NaN THEN 0 ELSE MathMax(value[1], 0)
\* Lines 90-93, the result in parts of 1 / ProbScale.
clampProbability(value) ==
    IF value = NaN THEN 0 ELSE MathMin(MathMax(value[1], 0), ProbScale)

\* Lines 101-105: tiers.reduce((sum, tier) => sum + prob * payout, 0)
RECURSIVE reduceTiers(_, _)
reduceTiers(sum, tiers) ==
    IF tiers = <<>> THEN sum
    ELSE reduceTiers(sum + clampProbability(Head(tiers).probability) * MathMax(Head(tiers).payout, 0),
                     Tail(tiers))

\* Lines 95-117.
computeEV(input) ==
    LET safeTicket == MathMax(input.ticketPrice, 0)
        safeJackpot == MathMax(input.jackpot, 0)
        safeRollover == clampProbability(input.rolloverProbability)
        jackpotContribution == safeJackpot * safeRollover
        secondaryContribution == reduceTiers(0, input.tiers)
        gross == jackpotContribution + secondaryContribution
        expectedValue == gross - ProbScale * safeTicket
        houseEdge == IF safeTicket > 0
                     THEN <<ProbScale * safeTicket - gross, ProbScale * safeTicket>>
                     ELSE <<1, 1>>
    IN  [expectedValue |-> expectedValue,
         jackpotContribution |-> jackpotContribution,
         secondaryContribution |-> secondaryContribution,
         houseEdge |-> houseEdge]

ComputeEV ==
    /\ ev.result = NoResult
    /\ ev' = [ev EXCEPT !.result = Returned(computeEV(ev.input))]
    /\ UNCHANGED evFrame

InitEv ==
    /\ sha = <<>>
    /\ dargs = [seedHex |-> <<>>, count |-> 0, min |-> 0, max |-> 0]
    /\ DeriveIdle
    /\ CommitIdle
    /\ BiasIdle
    /\ CodecIdle /\ FreshIdle /\ HarvestIdle /\ StoreIdle /\ StatsIdle /\ GenIdle
    /\ \E i \in EvInputs : ev = [input |-> i, result |-> NoResult]

NextEv == ComputeEV

SpecEv == InitEv /\ [][NextEv]_vars

(***************************************************************************)
(* NumberGenerator.tsx.  gen holds the component's state (gameId,          *)
(* linesRequested, avoidCommon, commitment, lines, revealState,            *)
(* verification), localStorage (available, items), the random seeds drawn, *)
(* and the calls of handleCommit and handleReveal that are waiting at an   *)
(* await: a handler keeps the values of the render it was created in, and  *)
(* any other event may be handled while it waits.  One call of each        *)
(* handler is in flight at a time.                                         *)
(*                                                                         *)
(* The handlers ask for more digests than the table sha can hold, so here  *)
(* SHA-256 is a function fixed by Init: hash says which of HashChoices     *)
(* functions it is, and it does not change.  The digest of a payload and   *)
(* what deriveNumbers settles with for its arguments (rng.ts, lines 38-67) *)
(* are functions of hash and of nothing else in the state.                 *)
(* shown remembers which call of handleReveal set lines.                   *)
(***************************************************************************)
\* Turns of the loop of generateLine (attempts < 10 in the source, scaled down).
MaxAttempts == 2
\* The largest number typed into the Lines field (max 10 in the source).
MaxLines == 2

\* const GAMES of the component, lines 11-15.
GeneratorGames ==
    << [id |-> <<"u", "k", "_", "l", "o", "t", "t", "o">>, range |-> <<1, 59>>, picks |-> 6],
       [id |-> <<"e", "u", "r", "o", "m", "i", "l", "l", "i", "o", "n", "s">>, range |-> <<1, 50>>, picks |-> 5],
       [id |-> <<"t", "h", "u", "n", "d", "e", "r", "b", "a", "l", "l">>, range |-> <<1, 39>>, picks |-> 5] >>

\* GAMES.find((g) => g.id === gameId) ?? GAMES[0]
configOf(gameId) ==
    IF \E k \in 1..Len(GeneratorGames) : GeneratorGames[k].id = gameId
    THEN GeneratorGames[CHOOSE k \in 1..Len(GeneratorGames) : GeneratorGames[k].id = gameId]
    ELSE GeneratorGames[1]

\* new Set(Array.from({ length: 31 }, (_, i) => i + 1))
birthdaySet == 1..31

\* value.toString(16) of a whole number that is not negative
RECURSIVE numberToString16(_)
numberToString16(value) ==
    IF value < 16 THEN <<HexLower[value + 1]>>
    ELSE numberToString16(value \div 16) \o <<HexLower[(value % 16) + 1]>>

\* Lines 23-27.
extendSeed(seedHex, value) ==
    LET suffix == numberToString16(value)
        normalized == IF Len(suffix) % 2 = 0 THEN suffix ELSE <<"0">> \o suffix
    IN  seedHex \o normalized

\* Math.ceil(n * 0.6): the double n * 0.6 rounds up to the whole number
\* above 3n/5 for the n a game picks (5 and 6).
ceilSixTenths(n) == (3 * n + 4) \div 5

\* Lines 29-34.
hasCommonPatterns(numbers) ==
    LET sorted == sortAscending(numbers)
        consecutive == \E idx \in 2..Len(sorted) : sorted[idx] = sorted[idx - 1] + 1
        birthdayHeavy ==
            Cardinality({ idx \in 1..Len(sorted) : sorted[idx] \in birthdaySet })
                >= ceilSixTenths(Len(sorted))
    IN  consecutive \/ birthdayHeavy

\* Lines deriveNumbers may return for count numbers of min..max: a run from
\* min, every other number from min, every other number up to max.
DerivedLines(count, min, max) ==
    << [k \in 1..count |-> min + k - 1],
       [k \in 1..count |-> min + 2 * (k - 1)],
       [k \in 1..count |-> max - 2 * (count - k)] >>

\* What a call of deriveNumbers with a well-formed seed may settle with.
DeriveOutcomes(count, min, max) ==
    [k \in 1..Len(DerivedLines(count, min, max)) |-> Returned(DerivedLines(count, min, max)[k])]
        \o << Thrown("Exhaustion") >>

\* The functions from arguments to outcomes that Init chooses among.
HashChoices == 0..1

\* A number that tells one seed string from another.
RECURSIVE Weight(_)
Weight(seedHex) ==
    IF seedHex = <<>> THEN 0
    ELSE Len(seedHex) * (HexVal(seedHex[Len(seedHex)]) + 1) + Weight(SubSeq(seedHex, 1, Len(seedHex) - 1))

\* await deriveNumbers(seedHex, count, min, max) where SHA-256 is function
\* hash: the same arguments always settle with the same outcome.
deriveNumbers(hash, seedHex, count, min, max) ==
    DeriveOutcomes(count, min, max)[((hash + Weight(seedHex) + count + max - min)
                                        % Len(DeriveOutcomes(count, min, max))) + 1]

\* The loop of generateLine, lines 73-77, entered with what the call before
\* settled with.
RECURSIVE jitter(_, _, _, _, _)
jitter(hash, seedHex, config, nums, attempts) ==
    IF nums.kind = "ok" /\ hasCommonPatterns(nums.value) /\ attempts < MaxAttempts
    THEN jitter(hash, seedHex, config,
                deriveNumbers(hash, extendSeed(seedHex, attempts), config.picks,
                              config.range[1], config.range[2]),
                attempts + 1)
    ELSE nums

\* await generateLine(seedHex), lines 68-82, with the config and avoidCommon
\* of the render.
generateLine(hash, seedHex, config, avoidCommon) ==
    LET nums == deriveNumbers(hash, seedHex, config.picks, config.range[1], config.range[2])
    IN  IF avoidCommon THEN jitter(hash, seedHex, config, nums, 0) ELSE nums

\* crypto.subtle.digest('SHA-256', payload) where SHA-256 is function hash:
\* DigestLen bytes, different for the payloads that differ in PayloadSum.
RECURSIVE PayloadSum(_)
PayloadSum(payload) ==
    IF payload = <<>> THEN 0
    ELSE Len(payload) * payload[Len(payload)] + PayloadSum(SubSeq(payload, 1, Len(payload) - 1))
RECURSIVE ByteAt(_, _)
ByteAt(n, k) == IF k = 1 THEN n % 256 ELSE ByteAt(n \div 256, k - 1)
digestBy(hash, payload) == [k \in 1..DigestLen |-> ByteAt(hash + PayloadSum(payload), k)]

\* commitSeed(gameId), rng.ts lines 27-35, with the random bytes sd drawn and
\* the clock reading ts.
commitSeedBy(hash, sd, ts, gameId) ==
    [seed |-> toHex(sd), ts |-> ts, gameId |-> gameId,
     commit |-> toHex(digestBy(hash, sd \o tag(ts, gameId)))]

\* verifyCommit(c), rng.ts lines 70-78.
verifyCommitBy(hash, c) ==
    IF fromHex(c.seed).kind = "error" THEN fromHex(c.seed)
    ELSE sameDigest(toHex(digestBy(hash, fromHex(c.seed).value \o tag(c.ts, c.gameId))), c.commit)

\* new Date().toISOString() after n calls of commitSeed: the clock goes on.
now(n) == IF n = 0 THEN <<"1">> ELSE <<"2">>

\* persistCommitment(c), lines 85-91, on the items of localStorage.
persistCommitmentTo(available, items, c) ==
    IF ~available THEN items
    ELSE (localCommitmentStorageKey(c.gameId) :> JSONstringify(c)) @@ items

\* The select's onChange (line 128), then the effect of lines 52-57 that the
\* new gameId triggers.
SelectGame ==
    /\ \E k \in 1..Len(GeneratorGames) :
         /\ GeneratorGames[k].id # gen.gameId
         /\ LET saved == loadCommitmentFrom(gen.available, gen.items, GeneratorGames[k].id)
            IN  gen' = [gen EXCEPT !.gameId = GeneratorGames[k].id,
                                   !.commitment = IF saved # Null THEN saved ELSE @]
    /\ UNCHANGED genFrame

\* The Lines field's onChange, line 143.
SetLinesRequested ==
    /\ \E n \in 1..MaxLines :
         /\ n # gen.linesRequested
         /\ gen' = [gen EXCEPT !.linesRequested = n]
    /\ UNCHANGED genFrame

\* The checkbox's onChange, line 153.
SetAvoidCommon ==
    /\ gen' = [gen EXCEPT !.avoidCommon = ~@]
    /\ UNCHANGED genFrame

\* handleCommit up to its await, line 60: commitSeed(gameId) with the gameId
\* of the render (rng.ts, lines 27-35).
HandleCommit ==
    /\ gen.committing = Null
    /\ \E sd \in [1..SeedLen -> ByteSamples] :
         /\ getRandomValues(sd, gen.drawn)
         /\ gen' = [gen EXCEPT
                      !.drawn = @ \cup {sd},
                      !.committing = [newCommit |-> commitSeedBy(gen.hash, sd, now(Cardinality(gen.drawn)),
                                                                 gen.gameId)]]
    /\ UNCHANGED genFrame

\* handleCommit past its await, lines 61-65.
CommitSettled ==
    /\ gen.committing # Null
    /\ gen' = [gen EXCEPT
                 !.items = persistCommitmentTo(gen.available, @, gen.committing.newCommit),
                 !.commitment = gen.committing.newCommit,
                 !.lines = <<>>,
                 !.revealState = "hidden",
                 !.verification = "idle",
                 !.shown = Null,
                 !.committing = Null]
    /\ UNCHANGED genFrame

\* Lines 93-95 of handleReveal, where the loop has ended: the call t has
\* newLines, and waits for verifyCommit.
revealed(t, newLines) ==
    [gen EXCEPT !.lines = newLines,
                !.revealState = "revealed",
                !.shown = [commitment |-> t.commitment, config |-> t.config,
                           avoidCommon |-> t.avoidCommon, linesRequested |-> t.linesRequested],
                !.revealing = [t EXCEPT !.newLines = newLines, !.awaiting = "verify"]]

\* handleReveal up to its first await, with the commitment, config,
\* avoidCommon and linesRequested of the render: line 90, or line 95 where
\* no line is asked for.
HandleReveal ==
    /\ gen.revealing = Null
    /\ gen.commitment # Null
    /\ LET t == [commitment |-> gen.commitment, config |-> configOf(gen.gameId),
                 avoidCommon |-> gen.avoidCommon, linesRequested |-> gen.linesRequested,
                 i |-> 0, newLines |-> <<>>, seed |-> extendSeed(gen.commitment.seed, 0),
                 asked |-> extendSeed(gen.commitment.seed, 0), attempts |-> 0, calls |-> 1,
                 awaiting |-> "first"]
       IN  IF 0 < gen.linesRequested
           THEN gen' = [gen EXCEPT !.revealing = t]
           ELSE gen' = revealed(t, <<>>)
    /\ UNCHANGED genFrame

\* The same where generateLine reads avoidCommon as it is now.
RevealDerivedLive ==
    /\ gen.revealing # Null
    /\ gen.revealing.awaiting \in {"first", "jitter"}
    /\ LET t == gen.revealing
           count == t.config.picks
           min == t.config.range[1]
           max == t.config.range[2]
       IN    LET r == deriveNumbers(gen.hash, t.asked, count, min, max)
                 attempts == IF t.awaiting = "jitter" THEN t.attempts + 1 ELSE 0
                 newLines == Append(t.newLines, r.value)
             IN  IF r.kind = "error"
                 THEN gen' = [gen EXCEPT !.revealing = Null]
                 ELSE IF gen.avoidCommon /\ hasCommonPatterns(r.value) /\ attempts < MaxAttempts
                 THEN gen' = [gen EXCEPT
                                !.revealing = [t EXCEPT !.attempts = attempts,
                                                        !.asked = extendSeed(t.seed, attempts),
                                                        !.calls = @ + 1,
                                                        !.awaiting = "jitter"]]
                 ELSE IF t.i + 1 < t.linesRequested
                 THEN gen' = [gen EXCEPT
                                !.revealing = [t EXCEPT !.i = @ + 1,
                                                        !.newLines = newLines,
                                                        !.seed = extendSeed(t.commitment.seed, t.i + 1),
                                                        !.asked = extendSeed(t.commitment.seed, t.i + 1),
                                                        !.attempts = 0,
                                                        !.calls = 1,
                                                        !.awaiting = "first"]]
                 ELSE gen' = revealed(t, newLines)
    /\ UNCHANGED genFrame
\* A call of deriveNumbers settles, and handleReveal runs on to its next
\* await: lines 69-81 of generateLine, lines 88-95 of handleReveal.
RevealDerived ==
    /\ gen.revealing # Null
    /\ gen.revealing.awaiting \in {"first", "jitter"}
    /\ LET t == gen.revealing
           count == t.config.picks
           min == t.config.range[1]
           max == t.config.range[2]
       IN    LET r == deriveNumbers(gen.hash, t.asked, count, min, max)
                 attempts == IF t.awaiting = "jitter" THEN t.attempts + 1 ELSE 0
                 newLines == Append(t.newLines, r.value)
             IN  IF r.kind = "error"
                 THEN gen' = [gen EXCEPT !.revealing = Null]
                 ELSE IF t.avoidCommon /\ hasCommonPatterns(r.value) /\ attempts < MaxAttempts
                 THEN gen' = [gen EXCEPT
                                !.revealing = [t EXCEPT !.attempts = attempts,
                                                        !.asked = extendSeed(t.seed, attempts),
                                                        !.calls = @ + 1,
                                                        !.awaiting = "jitter"]]
                 ELSE IF t.i + 1 < t.linesRequested
                 THEN gen' = [gen EXCEPT
                                !.revealing = [t EXCEPT !.i = @ + 1,
                                                        !.newLines = newLines,
                                                        !.seed = extendSeed(t.commitment.seed, t.i + 1),
                                                        !.asked = extendSeed(t.commitment.seed, t.i + 1),
                                                        !.attempts = 0,
                                                        !.calls = 1,
                                                        !.awaiting = "first"]]
                 ELSE gen' = revealed(t, newLines)
    /\ UNCHANGED genFrame

\* verifyCommit(commitment) settles, lines 95-96.
RevealVerified ==
    /\ gen.revealing # Null
    /\ gen.revealing.awaiting = "verify"
    /\ LET valid == verifyCommitBy(gen.hash, gen.revealing.commitment)
       IN  gen' = [gen EXCEPT
                     !.verification = IF valid.kind # "ok" THEN @
                                      ELSE IF valid.value THEN "valid" ELSE "invalid",
                     !.revealing = Null]
    /\ UNCHANGED genFrame

\* The component mounted: the effect of lines 52-57 has run over a
\* localStorage that holds no commitment yet.
InitGen ==
    /\ sha = <<>>
    /\ dargs = [seedHex |-> <<>>, count |-> 0, min |-> 0, max |-> 0]
    /\ DeriveIdle
    /\ CommitIdle
    /\ BiasIdle
    /\ CodecIdle /\ FreshIdle /\ HarvestIdle /\ StoreIdle /\ StatsIdle /\ EvIdle
    /\ \E a \in BOOLEAN, h \in HashChoices : gen = [Unmounted EXCEPT !.available = a, !.hash = h]

NextGen ==
    \/ SelectGame
    \/ SetLinesRequested
    \/ SetAvoidCommon
    \/ HandleCommit
    \/ CommitSettled
    \/ HandleReveal
    \/ RevealDerived
    \/ RevealVerified

SpecGen == InitGen /\ [][NextGen]_vars

\* The Commitments commitSeed(gameId) may have returned at clock reading ts.
Committed(hash, ts, gameId) ==
    { commitSeedBy(hash, sd, ts, gameId) : sd \in [1..SeedLen -> ByteSamples] }

\* What earlier sessions may have left in localStorage: a commitment for the
\* first game, and perhaps a later one for another game.
SavedItems(hash) ==
    LET first == Committed(hash, now(0), GeneratorGames[1].id)
    IN  { persistCommitmentTo(TRUE, <<>>, c) : c \in first }
        \cup { persistCommitmentTo(TRUE, persistCommitmentTo(TRUE, <<>>, p[1]), p[2]) :
                 p \in { q \in first \X UNION { Committed(hash, now(1), GeneratorGames[k].id) :
                                                   k \in 2..Len(GeneratorGames) } :
                           q[1].seed # q[2].seed } }

\* The component mounted over such a localStorage: the effect of lines 52-57
\* has loaded the commitment of the first game.
InitReveal ==
    /\ sha = <<>>
    /\ dargs = [seedHex |-> <<>>, count |-> 0, min |-> 0, max |-> 0]
    /\ DeriveIdle
    /\ CommitIdle
    /\ BiasIdle
    /\ CodecIdle /\ FreshIdle /\ HarvestIdle /\ StoreIdle /\ StatsIdle /\ EvIdle
    /\ \E h \in HashChoices :
         \E items \in SavedItems(h) :
           gen = [Unmounted EXCEPT !.hash = h, !.items = items,
                                   !.commitment = loadCommitmentFrom(TRUE, items, Unmounted.gameId)]

\* Reveals of the commitments held, no new commitment made.
NextReveal ==
    \/ SelectGame
    \/ SetLinesRequested
    \/ SetAvoidCommon
    \/ HandleReveal
    \/ RevealDerived
    \/ RevealVerified

SpecReveal == InitReveal /\ [][NextReveal]_vars

(***************************************************************************)
(* Vocabulary of the properties.                                           *)
(***************************************************************************)
WellFormedHex(s) == EvenLength(s) /\ \A i \in 1..Len(s) : IsHexDigit(s[i])

\* Two lowercase hex characters per byte, in byte order.
LowerHex(bytes) ==
    [i \in 1..(2 * Len(bytes)) |->
        IF i % 2 = 1 THEN HexLower[(bytes[(i + 1) \div 2] \div 16) + 1]
        ELSE HexLower[(bytes[i \div 2] % 16) + 1]]

SameLetter(x, y) == x = y \/ \E i \in 11..16 : {x, y} = {HexLower[i], HexUpper[i]}
EqualIgnoringCase(a, b) == Len(a) = Len(b) /\ \A i \in 1..Len(a) : SameLetter(a[i], b[i])

\* seed_bytes || utf8(ts ++ gameId) of a commitment whose seed has even length
PayloadOf(c) == fromHexBytes(c.seed) \o encode(c.ts \o c.gameId)

Differences(a, b) == IF Len(a) # Len(b) THEN 2 ELSE Cardinality({i \in 1..Len(a) : a[i] # b[i]})
\* d is c with a single character of a single field changed to another one
OneCharApart(c, d) ==
    Differences(c.seed, d.seed) + Differences(c.ts, d.ts)
        + Differences(c.gameId, d.gameId) + Differences(c.commit, d.commit) = 1

DeriveRange == dargs.max - dargs.min + 1
DeriveValidArgs ==
    /\ WellFormedHex(dargs.seedHex)
    /\ dargs.count >= 0
    /\ dargs.min <= dargs.max
    /\ DeriveRange <= ByteSpan
\* exactly count integers, all in [min, max], strictly ascending
CountSortedDistinct(v) ==
    /\ Len(v) = dargs.count
    /\ \A i \in 1..Len(v) : v[i] \in dargs.min..dargs.max
    /\ \A i, j \in 1..Len(v) : i < j => v[i] < v[j]

(***************************************************************************)
(* deriveNumbers                                                           *)
(***************************************************************************)
\* C1 as stated: for a well-formed seed, count >= 0 and min <= max with
\* max-min+1 <= 256, deriveNumbers returns exactly count distinct integers
\* of [min, max] in ascending order.
C1_AlwaysCountNumbers ==
    (dpc = "done" /\ DeriveValidArgs) => (dres.kind = "ok" /\ CountSortedDistinct(dres.value))

\* C1 amended: for such arguments a sequence that deriveNumbers returns
\* holds exactly count distinct integers of [min, max] in ascending order,
\* and a call that returns none fails with the exhaustion error, as every
\* call with count > max-min+1 does.
C1_ReturnedNumbers ==
    (dpc = "done" /\ DeriveValidArgs) =>
        /\ dres.kind = "ok" => CountSortedDistinct(dres.value)
        /\ dres.kind # "ok" => dres = Thrown("Exhaustion")
        /\ dargs.count > DeriveRange => dres = Thrown("Exhaustion")
C1_Witness ==
    /\ dpc = "done" /\ DeriveValidArgs
    /\ dres.kind = "ok" /\ Len(dres.value) = 2
    /\ out # dres.value

\* C5: a second call of deriveNumbers with the same four arguments settles
\* as the first one did, value for value or failure for failure.
C5_Deterministic == (dpc = "done" /\ dlast # NoResult) => dres = dlast
C5_Witness ==
    /\ dpc = "done" /\ dlast.kind = "ok" /\ Len(dlast.value) = 2
    /\ counter >= 2

\* C6: with min > max deriveNumbers fails with the invalid range error,
\* whatever the seed and the count, a count <= 0 included.
C6_InvalidRangeAlways ==
    (dpc = "done" /\ dargs.min > dargs.max) => dres = Thrown("InvalidRange")

\* C7: deriveNumbers fails with the exhaustion error exactly when the counter
\* passes the bound with fewer than count distinct values in the set, and a
\* call whose set reaches count values returns them.
C7_ExhaustionExactly ==
    (dpc = "done" /\ dargs.count >= 1 /\ dargs.min <= dargs.max /\ EvenLength(dargs.seedHex)) =>
        /\ dres = Thrown("Exhaustion") <=> (counter > CounterLimit /\ Len(out) < dargs.count)
        /\ Len(out) >= dargs.count => dres = Returned(sortAscending(out))

\* The bytes of the first n digests SHA256(seed || LE32(counter)),
\* counter = 0, 1, ..., n-1, in that order.
DeriveStream(n) == Flatten([k \in 1..n |-> sha[seed \o counterBytes(k - 1)]])
\* The mapped values of the accepted bytes among the first p bytes of s.
Met(s, p) ==
    { mapped(s[i], DeriveRange, dargs.min) :
        i \in { j \in 1..p : s[j] <= maxUnbiased(DeriveRange) } }
Completes(s, p) == Cardinality(Met(s, p)) >= dargs.count
\* The byte that completes the set: the first one that does.
CompletingByte(s) == CHOOSE p \in 1..Len(s) : Completes(s, p) /\ \A q \in 1..(p - 1) : ~Completes(s, q)
Values(v) == { v[i] : i \in 1..Len(v) }

\* C11: a sequence deriveNumbers returns for count >= 1 holds exactly the
\* first count distinct mapped values of the accepted bytes, the digests
\* taken for counter = 0, 1, 2, ... and each digest left to right; the byte
\* that completes the set lies in the last digest computed, and the bytes
\* after it have no part in the result.
C11_FirstCountDistinct ==
    (dpc = "done" /\ dres.kind = "ok" /\ dargs.count >= 1) =>
        /\ \A k \in 0..(counter - 1) : (seed \o counterBytes(k)) \in DOMAIN sha
        /\ \E p \in 1..(counter * DigestLen) : Completes(DeriveStream(counter), p)
        /\ LET s == DeriveStream(counter)
               p == CompletingByte(s)
           IN  /\ Values(dres.value) = Met(s, p)
               /\ Len(dres.value) = dargs.count
               /\ Values(out) = Met(s, p)
               /\ counter = (p + DigestLen - 1) \div DigestLen
C11_Witness ==
    /\ dpc = "done" /\ dres.kind = "ok" /\ dargs.count = 2
    /\ counter = 2
    /\ CompletingByte(DeriveStream(counter)) % DigestLen # 0
    /\ Met(DeriveStream(counter), DigestLen) # {}

\* C12: with count <= 0 and min <= max deriveNumbers returns the empty
\* sequence, whatever the seed string, one that does not decode included,
\* and no digest has been asked for.
C12_NonPositiveCountEmpty ==
    (dpc = "done" /\ dargs.count <= 0 /\ dargs.min <= dargs.max) =>
        /\ dres = Returned(<<>>)
        /\ sha = <<>>
        /\ counter = 0
C12_Witness ==
    /\ dpc = "done" /\ dargs.count < 0 /\ dargs.min <= dargs.max
    /\ ~EvenLength(dargs.seedHex)
    /\ dres = Returned(<<>>)
    /\ dlast = Returned(<<>>)

\* A call with count >= 1 and a range wider than 256 that reaches the loop.
WideRange == dargs.count >= 1 /\ DeriveRange > ByteSpan /\ EvenLength(dargs.seedHex)

C2_FreshCommitVerifies ==
    cm # NoCommitment =>
        /\ \E sd \in [1..SeedLen -> ByteSamples] :
              /\ cm.seed = LowerHex(sd)
              /\ (sd \o encode(cm.ts \o cm.gameId)) \in DOMAIN sha
              /\ cm.commit = LowerHex(sha[sd \o encode(cm.ts \o cm.gameId)])
        /\ (vres # NoResult /\ vin = cm) => vres = Returned(TRUE)
C2_Witness == cm # NoCommitment /\ vin = cm /\ vres = Returned(TRUE) /\ changes = 0

\* C3 as stated: a commitment that verified, with any single character of
\* any field changed to a different one, does not verify.
C3_AnyChangeFails ==
    [][(vres = Returned(TRUE) /\ OneCharApart(vin, vin')) => vres' = Returned(FALSE)]_vars

\* What verifyCommit reads of a commitment: the bytes it hashes and the
\* commit up to letter case.
SameReading(c, d) ==
    /\ fromHexBytes(c.seed) = fromHexBytes(d.seed)
    /\ encode(c.ts \o c.gameId) = encode(d.ts \o d.gameId)
    /\ EqualIgnoringCase(c.commit, d.commit)

\* C3 amended: a commitment that verified, with a single character changed,
\* does not verify, unless the change leaves the decoded seed bytes, the
\* UTF-8 bytes of ts ++ gameId and the commit up to letter case as they
\* were (a letter of seed or commit in the other case, a seed character
\* that decodes alike, an unpaired surrogate for another): then it verifies.
C3_EffectiveChangeFails ==
    [][(vres = Returned(TRUE) /\ OneCharApart(vin, vin')) =>
          vres' = Returned(SameReading(vin, vin'))]_vars
C3_Witness ==
    /\ vres = Returned(FALSE)
    /\ changes >= 1
    /\ \E c \in OneCharChanges(vin) :
          /\ c.ts # vin.ts
          /\ PayloadOf(c) \in DOMAIN sha
          /\ EqualIgnoringCase(c.commit, LowerHex(sha[PayloadOf(c)]))

\* C4: verifyCommit answers true exactly when the seed decodes and the
\* lowercase hex of the digest of seed bytes || utf8(ts ++ gameId) equals
\* commit up to letter case; on a seed that decodes it answers false otherwise.
C4_TrueIffDigestMatches ==
    vres # NoResult =>
        IF EvenLength(vin.seed)
        THEN /\ PayloadOf(vin) \in DOMAIN sha
             /\ vres = Returned(EqualIgnoringCase(vin.commit, LowerHex(sha[PayloadOf(vin)])))
        ELSE vres # Returned(TRUE)
C4_Witness ==
    /\ vres = Returned(TRUE)
    /\ vin.commit # toLowerCase(vin.commit)
    /\ changes >= 1

\* C8: verifyCommit fails with the encoding error whenever the seed is not
\* a well-formed hex string: of odd length, or holding a character that is
\* no hex digit.
C8_MalformedSeedThrows ==
    (vres # NoResult /\ ~WellFormedHex(vin.seed)) => vres = Thrown("InvalidEncoding")

\* C9: on a commitment whose seed is a well-formed hex string verifyCommit
\* answers true or false and never fails, whatever ts, gameId and commit.
C9_MismatchIsBoolean ==
    (vres # NoResult /\ WellFormedHex(vin.seed)) => vres \in {Returned(TRUE), Returned(FALSE)}
C9_Witness ==
    /\ vres = Returned(FALSE)
    /\ WellFormedHex(vin.seed)
    /\ ~EqualIgnoringCase(vin.commit, LowerHex(sha[PayloadOf(vin)]))

\* C15: any two Commitments commitSeed returned for the same gameId, in
\* either order and with equal or different ts, differ in seed and in
\* commit.
C15_FreshPerCommitment ==
    \A i, j \in 1..Len(fresh.issued) :
        (i # j /\ fresh.issued[i].gameId = fresh.issued[j].gameId) =>
            /\ fresh.issued[i].seed # fresh.issued[j].seed
            /\ fresh.issued[i].commit # fresh.issued[j].commit
C15_Witness ==
    /\ Len(fresh.issued) >= 2
    /\ fresh.issued[1].gameId = fresh.issued[2].gameId
    /\ fresh.issued[1].ts = fresh.issued[2].ts
    /\ fresh.issued[1].commit # fresh.issued[2].commit

\* The commitment stored last with gameId g among the first n stored,
\* Null when there is none.
MostRecent(n, g) ==
    LET at == { i \in 1..n : store.persisted[i].gameId = g }
    IN  IF at = {} THEN Null
        ELSE store.persisted[CHOOSE i \in at : \A j \in at : j <= i]

\* C17: whatever was stored before, loadCommitment(g) returns the
\* commitment stored last with gameId g, the older ones with that gameId
\* superseded, and null when none was stored with it; so storing one with
\* another gameId changes nothing of what loadCommitment(g) returns.
C17_KeyedByGameId ==
    /\ \A g \in GameIds :
          loadCommitmentFrom(store.available, store.items, g) = MostRecent(Len(store.persisted), g)
    /\ store.loaded.value # NoResult =>
          store.loaded.value = MostRecent(store.loaded.at, store.loaded.gameId)
C17_Witness ==
    /\ Len(store.persisted) = 3
    /\ store.persisted[1].gameId = store.loaded.gameId
    /\ store.persisted[2].gameId = store.loaded.gameId
    /\ store.persisted[3].gameId # store.loaded.gameId
    /\ store.persisted[1] # store.persisted[2]
    /\ store.loaded.at = 3
    /\ store.loaded.value = store.persisted[2]
    /\ store.warned = 1

(***************************************************************************)
(* The hex codec                                                           *)
(***************************************************************************)
\* C13: toHex gives two lowercase hex characters per byte in byte order,
\* fromHex(toHex(bytes)) returns bytes, and for a string of hex digits of
\* even length toHex(fromHex(h)) is h in lower case.
C13_HexRoundTrip ==
    /\ (codec.from = "bytes" /\ codec.pc >= 1) =>
          /\ Len(codec.hex) = 2 * Len(codec.bytes)
          /\ codec.hex = LowerHex(codec.bytes)
    /\ (codec.from = "bytes" /\ codec.pc = 2) => codec.back = Returned(codec.bytes)
    /\ (codec.from = "hex" /\ codec.pc >= 1 /\ WellFormedHex(codec.hex)) => codec.back.kind = "ok"
    /\ (codec.from = "hex" /\ codec.pc = 2 /\ WellFormedHex(codec.hex)) =>
          codec.rehex = toLowerCase(codec.hex)
C13_Witness ==
    /\ codec.from = "bytes" /\ codec.pc = 2
    /\ Len(codec.bytes) = 2 /\ codec.bytes[1] < 16 /\ codec.bytes[2] >= 160
    /\ codec.back = Returned(codec.bytes)

(***************************************************************************)
(* The harvest script                                                      *)
(***************************************************************************)
\* The draws stored in a data file, <<>> for a file that does not exist.
StoredDraws(text) == IF text = <<>> THEN <<>> ELSE text[6]

\* C16: when the loop of main handles a game whose harvested draws are the
\* draws already stored in its data file, the file is not written and the
\* console says "no change" for the game.
C16_SameDrawsNoRewrite ==
    [][\A i \in 1..Len(GAMES) :
          (/\ harvest.next = i /\ harvest'.next = i + 1
           /\ harvest'.dataset.draws # <<>>
           /\ harvest'.dataset.draws = StoredDraws(harvest.files[i])) =>
              /\ harvest'.files[i] = harvest.files[i]
              /\ harvest'.written = harvest.written
              /\ harvest'.log = Append(harvest.log, <<"log", GAMES[i], "no change">>)]_vars

\* The loop of main has handled the games before number i, one console line
\* each, in the order of GAMES.
VisitedOnce(i) ==
    /\ Len(harvest.log) = i - 1
    /\ \A k \in 1..(i - 1) : harvest.log[k][2] = GAMES[k]

\* C24: a game whose harvest fails (the fetch fails, the container is
\* missing, the schema rejects the dataset) gets an error line and keeps its
\* data file as it was, no other file is touched by it, and the loop goes on
\* with the game after it; main is always at a game it has not handled, with
\* every game before it handled once; and a run that has started comes to
\* its end.
C24_FailureSkipsOneGame ==
    /\ [][\A i \in 1..Len(GAMES) :
            (harvest.next = i /\ harvest'.next # i) =>
               /\ harvest'.next = i + 1
               /\ harvest'.log[i][2] = GAMES[i]
               /\ \A j \in 1..Len(GAMES) : j # i => harvest'.files[j] = harvest.files[j]
               /\ harvest'.log[i][1] = "error" =>
                     /\ harvest'.files = harvest.files
                     /\ harvest'.written = harvest.written
                     /\ harvest'.updated = harvest.updated]_vars
    /\ [](harvest.next \in 1..(Len(GAMES) + 1) => VisitedOnce(harvest.next))
    /\ (harvest.next \in 1..Len(GAMES)) ~> (harvest.next = Len(GAMES) + 1)
    /\ (harvest.next = Len(GAMES) + 1) ~> (harvest.next = 0)
\* A run is at its end: the first game failed and its file of the run before
\* is still there, the two games after it were written.
C24_Witness ==
    /\ harvest.runs = 1
    /\ harvest.next = Len(GAMES) + 1
    /\ harvest.log[1][1] = "error"
    /\ harvest.files[1] # <<>>
    /\ harvest.written = {2, 3}

(***************************************************************************)
(* stats.ts                                                                *)
(***************************************************************************)
\* The integer a decimal label stands for.
RECURSIVE NatOf(_)
NatOf(label) ==
    IF label = <<>> THEN 0
    ELSE 10 * NatOf(SubSeq(label, 1, Len(label) - 1))
         + (CHOOSE d \in 0..9 : DecDigits[d + 1] = label[Len(label)])
IntOf(label) == IF Head(label) = "-" THEN 0 - NatOf(Tail(label)) ELSE NatOf(label)

\* How many times n occurs in the numbers of the draws.
RECURSIVE Occurrences(_, _)
Occurrences(draws, n) ==
    IF draws = <<>> THEN 0
    ELSE Cardinality({ j \in 1..Len(Head(draws).numbers) : Head(draws).numbers[j] = n })
         + Occurrences(Tail(draws), n)
RECURSIVE SumValues(_)
SumValues(entries) == IF entries = <<>> THEN 0 ELSE Head(entries).value + SumValues(Tail(entries))
RECURSIVE InPool(_)
InPool(draws) ==
    IF draws = <<>> THEN 0
    ELSE Cardinality({ j \in 1..Len(Head(draws).numbers) :
                          Head(draws).numbers[j] \in stats.poolMin..stats.poolMax })
         + InPool(Tail(draws))

\* C18: computeFrequency returns one entry per integer of
\* [poolMin, poolMax], in ascending order, labelled with the integer and
\* holding the number of times it occurs in all the draws; numbers outside
\* the pool are left out, and the values add up to the occurrences of
\* numbers of the pool.
C18_FrequencyPerPoolNumber ==
    stats.frequency # NoResult =>
        LET freq == stats.frequency.value
        IN  /\ Len(freq) = Cardinality(stats.poolMin..stats.poolMax)
            /\ \A k \in 1..Len(freq) :
                  /\ IntOf(freq[k].label) = stats.poolMin + k - 1
                  /\ freq[k].value = Occurrences(stats.given, stats.poolMin + k - 1)
            /\ SumValues(freq) = InPool(stats.given)
C18_Witness ==
    /\ stats.frequency # NoResult
    /\ Len(stats.given) = 3
    /\ Len(stats.frequency.value) = 10
    /\ stats.frequency.value[1].value = 3
    /\ stats.frequency.value[10] = [label |-> <<"1", "0">>, value |-> 1]
    /\ InPool(stats.given) = 6

\* C19: selectRollingWindow returns the last min(count, |draws|) draws in
\* the order they had when count > 0 and the empty list when count <= 0,
\* and the list it was given is as it was.
C19_LastCountDraws ==
    stats.window # NoResult =>
        LET n == Len(stats.given)
            m == IF stats.count <= 0 THEN 0 ELSE IF stats.count < n THEN stats.count ELSE n
        IN  /\ Len(stats.window.value) = m
            /\ \A k \in 1..m : stats.window.value[k] = stats.given[n - m + k]
            /\ stats.draws = stats.given
C19_Witness ==
    /\ stats.window # NoResult
    /\ Len(stats.given) = 3 /\ stats.count = 2
    /\ stats.given[1] # stats.given[3]
    /\ stats.window.value = <<stats.given[2], stats.given[3]>>

(***************************************************************************)
(* ev.ts                                                                   *)
(***************************************************************************)
\* A probability brought into [0, 1], NaN counted as 0; an amount below 0
\* counted as 0.  Both in parts of 1 / ProbScale.
InUnit(q) == IF q = NaN \/ q[1] < 0 THEN 0 ELSE IF q[1] > ProbScale THEN ProbScale ELSE q[1]
NotNegative(a) == IF a < 0 THEN 0 ELSE a
RECURSIVE TierSum(_)
TierSum(tiers) ==
    IF tiers = <<>> THEN 0
    ELSE InUnit(Head(tiers).probability) * NotNegative(Head(tiers).payout) + TierSum(Tail(tiers))
SameQuotient(x, y) == x[2] # 0 /\ y[2] # 0 /\ x[1] * y[2] = y[1] * x[2]

\* C20: computeEV returns jackpotContribution = max(jackpot, 0) times the
\* clamped rollover probability, secondaryContribution = the sum of clamped
\* probability times max(payout, 0) over the tiers, expectedValue = their
\* sum less max(ticketPrice, 0), and houseEdge = 1 for a ticket price <= 0
\* and 1 - gross / ticketPrice otherwise; with price 0 and no prize,
\* expectedValue is 0 and houseEdge 1.
C20_ExpectedValue ==
    ev.result # NoResult =>
        LET in == ev.input
            r == ev.result.value
            gross == r.jackpotContribution + r.secondaryContribution
        IN  /\ r.jackpotContribution = NotNegative(in.jackpot) * InUnit(in.rolloverProbability)
            /\ r.secondaryContribution = TierSum(in.tiers)
            /\ r.expectedValue = gross - ProbScale * NotNegative(in.ticketPrice)
            /\ in.ticketPrice <= 0 => r.houseEdge = <<1, 1>>
            /\ in.ticketPrice > 0 =>
                  SameQuotient(r.houseEdge, <<ProbScale * in.ticketPrice - gross, ProbScale * in.ticketPrice>>)
            /\ (in.ticketPrice = 0 /\ gross = 0) => (r.expectedValue = 0 /\ r.houseEdge = <<1, 1>>)
C20_Witness ==
    /\ ev.result # NoResult
    /\ ev.input.ticketPrice = 2 /\ ev.input.jackpot = 8
    /\ ev.input.rolloverProbability = <<ProbScale + 1>>
    /\ Len(ev.input.tiers) = 2
    /\ ev.input.tiers[1].probability = NaN /\ ev.input.tiers[1].payout = 4
    /\ ev.input.tiers[2].probability = <<2>> /\ ev.input.tiers[2].payout = 4
    /\ ev.result.value.expectedValue = 32
    /\ ev.result.value.houseEdge = <<0 - 32, 8>>

(***************************************************************************)
(* NumberGenerator                                                         *)
(***************************************************************************)
\* Line number j of a reveal of commitment c, as its seed, j, the picks and
\* range of config and avoidCommon determine it.
LineOf(c, j, config, avoidCommon) ==
    generateLine(gen.hash, extendSeed(c.seed, j - 1), config, avoidCommon)

\* C21: Reveal is reproducible per line.  The lines a call of handleReveal
\* has pushed so far, and the lines it has set, are the lines that the seed
\* of its commitment, the line's index, its config and its avoidCommon
\* determine, as many as its linesRequested; and no line has taken more than
\* MaxAttempts + 1 calls of deriveNumbers (11 in the source).
C21_RevealReproducible ==
    /\ gen.revealing # Null =>
          /\ gen.revealing.calls <= MaxAttempts + 1
          /\ \A j \in 1..Len(gen.revealing.newLines) :
                LineOf(gen.revealing.commitment, j, gen.revealing.config,
                       gen.revealing.avoidCommon) = Returned(gen.revealing.newLines[j])
    /\ gen.revealState = "revealed" =>
          /\ gen.shown # Null
          /\ Len(gen.lines) = gen.shown.linesRequested
          /\ \A j \in 1..Len(gen.lines) :
                LineOf(gen.shown.commitment, j, gen.shown.config, gen.shown.avoidCommon)
                    = Returned(gen.lines[j])
\* MaxLines lines are shown, the last of them after MaxAttempts + 1 calls of
\* deriveNumbers, with avoidCommon changed since the reveal was asked for.
C21_Witness ==
    /\ gen.revealState = "revealed"
    /\ Len(gen.lines) = MaxLines
    /\ gen.revealing # Null
    /\ gen.revealing.awaiting = "verify"
    /\ gen.revealing.calls = MaxAttempts + 1
    /\ gen.revealing.avoidCommon
    /\ ~gen.avoidCommon

\* C22: Whenever revealState is 'revealed', the lines shown are the lines
\* derived from the seed of the commitment held in state, and a verification
\* of 'valid' or 'invalid' is what verifyCommit answers for that commitment,
\* however the calls of handleCommit and handleReveal are interleaved.
C22_RevealedFromHeldCommitment ==
    /\ gen.revealState = "revealed" =>
          /\ gen.commitment # Null
          /\ gen.shown # Null
          /\ \A j \in 1..Len(gen.lines) :
                LineOf(gen.commitment, j, gen.shown.config, gen.shown.avoidCommon)
                    = Returned(gen.lines[j])
    /\ gen.verification \in {"valid", "invalid"} =>
          /\ gen.commitment # Null
          /\ verifyCommitBy(gen.hash, gen.commitment) = Returned(gen.verification = "valid")

\* C23: A commitment held in state is one made for the game selected, and a
\* call of handleReveal derives numbers with the picks and range of the game
\* its commitment was made for.
C23_CommitmentOfSelectedGame ==
    /\ gen.commitment # Null => gen.commitment.gameId = gen.gameId
    /\ gen.revealing # Null =>
          gen.revealing.config = configOf(gen.revealing.commitment.gameId)

(***************************************************************************)
(* The mapping of bytes to numbers                                         *)
(***************************************************************************)
\* C10: for every range in 1..256, once every byte value has gone through
\* the loop body, each value of [min, max] was produced by exactly
\* floor(256 / range) accepted bytes.
C10_EqualPreimages ==
    bias.next = ByteSpan =>
        \A v \in bias.min..bias.max : bias.tally[v] = ByteSpan \div (bias.max - bias.min + 1)
C10_Witness ==
    /\ bias.next = ByteSpan
    /\ bias.max - bias.min + 1 = 59
    /\ bias.tally[bias.min] = 4

====
